---- MODULE Spec2Model ----
(***************************************************************************)
(* Model of the translating search proxy (index.js with the translation    *)
(* cache, src/unnamed/part_000): the in-memory translation cache           *)
(* (translationCache, cacheGet, cacheSet) and the GET /search handler with *)
(* its two awaits (the translation provider and the search backend).       *)
(*                                                                         *)
(* JavaScript strings are sequences of one-character strings.  The values  *)
(* undefined and null, and a query value that is not a string, are         *)
(* one-element sequences holding an atom that is no character.             *)
(***************************************************************************)
EXTENDS Integers, Sequences, FiniteSets, TLC

VARIABLES
    translationCache,   \* the Map, as the sequence of its entries in iteration order
    MAX_CACHE_ENTRIES,  \* the capacity computed once at start-up (line 45)
    apiKey,             \* whether process.env.GOOGLE_TRANSLATE_API_KEY is set
    now,                \* Date.now()
    reqs,               \* the /search requests in flight, one record per slot
    nReq,               \* how many requests have been received
    nSet,               \* how many times cacheSet has run (stamps the entries)
    got                 \* the last direct cacheGet call and what it returned

vars == <<translationCache, MAX_CACHE_ENTRIES, apiKey, now, reqs, nReq, nSet, got>>

-----------------------------------------------------------------------------
(* Bounds of the model *)

MaxTime == 2
MaxSets == 3
MaxGets == 1
MaxRequests == 2

\* the TTL in force (line 44), scaled from its default of one hour to clock ticks
CACHE_TTL_MS == 1

\* the capacity used when TRANSLATION_CACHE_MAX is unset, unparsable or 0 (line 45)
DEFAULT_MAX_CACHE_ENTRIES == 500

-----------------------------------------------------------------------------
(* JavaScript values *)

undefined == <<"undefined">>
null == <<"null">>
ArrayValue == <<"[array]">>      \* ?keywords=a&keywords=b parses to an array

Whitespace == {" "}
NonLatin1 == {"U+20AC"}          \* a character above U+00FF
Chars == {"a", "A", "b", "x", "y"} \cup Whitespace \cup NonLatin1

\* typeof v === 'string'
IsString(v) == \A i \in 1..Len(v) : v[i] \in Chars

\* JavaScript truthiness of a string, undefined or null
Truthy(v) == v # undefined /\ v # null /\ v # <<>>

LowerChar(ch) == IF ch = "A" THEN "a" ELSE ch

\* String.prototype.toLowerCase
ToLowerCase(s) == [i \in 1..Len(s) |-> LowerChar(s[i])]

RECURSIVE TrimStart(_)
TrimStart(s) ==
    IF s # <<>> /\ Head(s) \in Whitespace THEN TrimStart(Tail(s)) ELSE s

RECURSIVE TrimEnd(_)
TrimEnd(s) ==
    IF s # <<>> /\ s[Len(s)] \in Whitespace
    THEN TrimEnd(SubSeq(s, 1, Len(s) - 1))
    ELSE s

\* String.prototype.trim
Trim(s) == TrimEnd(TrimStart(s))

-----------------------------------------------------------------------------
(* Start-up configuration: parseInt(process.env.X || '', 10) || default *)

Digits == {"0", "1", "2", "3", "4", "5", "6", "7", "8", "9"}

DigitValue(d) == CHOOSE n \in 0..9 : <<"0", "1", "2", "3", "4", "5", "6", "7", "8", "9">>[n + 1] = d

RECURSIVE LeadingDigits(_)
LeadingDigits(s) ==
    IF s # <<>> /\ Head(s) \in Digits
    THEN <<Head(s)>> \o LeadingDigits(Tail(s))
    ELSE <<>>

RECURSIVE DecimalValue(_)
DecimalValue(ds) ==
    IF ds = <<>> THEN 0
    ELSE 10 * DecimalValue(SubSeq(ds, 1, Len(ds) - 1)) + DigitValue(ds[Len(ds)])

\* parseInt(s, 10): <<>> stands for NaN, <<n>> for the number n
ParseInt(s) ==
    LET neg == s # <<>> /\ Head(s) = "-"
        ds  == LeadingDigits(IF neg THEN Tail(s) ELSE s)
    IN  IF ds = <<>> THEN <<>>
        ELSE IF neg THEN <<0 - DecimalValue(ds)>> ELSE <<DecimalValue(ds)>>

\* parseInt(env || '', 10) || dflt: NaN and 0 are falsy
ParseIntOr(env, dflt) ==
    LET n == ParseInt(env)
    IN  IF n = <<>> \/ n = <<0>> THEN dflt ELSE n[1]

\* the settings of TRANSLATION_CACHE_MAX covered: unset, unparsable, zero,
\* negative, and a small capacity (parseInt reads the leading digits)
CacheMaxSettings == {<<>>, <<"x">>, <<"0">>, <<"-", "1">>, <<"2">>, <<"2", "x">>}

-----------------------------------------------------------------------------
(* The Map translationCache.  An entry is { translated, expiresAt } under   *)
(* its key; seq, setAt and original are history fields: the number of the  *)
(* cacheSet call that made the key resident, the time of the last write    *)
(* and the text that write was given.                                      *)

MapHas(m, key) == \E i \in 1..Len(m) : m[i].key = key

MapIndex(m, key) == CHOOSE i \in 1..Len(m) : m[i].key = key

MapKeys(m) == {m[i].key : i \in 1..Len(m)}

\* Map.prototype.delete: the other entries keep their order
MapDelete(m, key) == SelectSeq(m, LAMBDA e : e.key # key)

\* a store that adds an entry on every write
MapSetAppend(m, entry) == Append(m, entry)

\* Map.prototype.set: a resident key keeps its place, a new key goes last
MapSet(m, entry) ==
    IF MapHas(m, entry.key)
    THEN [m EXCEPT ![MapIndex(m, entry.key)] =
             [entry EXCEPT !.seq = m[MapIndex(m, entry.key)].seq]]
    ELSE Append(m, entry)

\* a cache keyed by the text as given
CacheKeyExact(original) == original

\* the key both functions use: original.toLowerCase()
CacheKey(original) == ToLowerCase(original)

\* an entry that is already dead at the instant of its expiry
ExpiredAtBoundary(entry, t) == t >= entry.expiresAt

\* Date.now() > entry.expiresAt
Expired(entry, t) == t > entry.expiresAt

\* what cacheGet returns
cacheGetValue(m, original, t) ==
    LET key == CacheKey(original)
    IN  IF ~MapHas(m, key) THEN null
        ELSE IF Expired(m[MapIndex(m, key)], t) THEN null
        ELSE m[MapIndex(m, key)].translated

\* a lookup that sweeps: it drops every expired entry it passes
cacheGetMapSweeping(m, original, t) == SelectSeq(m, LAMBDA e : ~Expired(e, t))

\* the Map after cacheGet
cacheGetMap(m, original, t) ==
    LET key == CacheKey(original)
    IN  IF MapHas(m, key) /\ Expired(m[MapIndex(m, key)], t)
        THEN MapDelete(m, key)
        ELSE m

\* the expiry cacheSet gives an entry written at time t
ExpiresAt(t) == t + CACHE_TTL_MS

\* a cache that evicts the newest entry instead of the oldest
EvictLast(m) == IF m = <<>> THEN m ELSE MapDelete(m, m[Len(m)].key)

\* translationCache.keys().next().value, then delete: nothing when empty
EvictFirst(m) == IF m = <<>> THEN m ELSE MapDelete(m, m[1].key)

\* whether cacheSet evicts
AtCapacity(m, max) == Len(m) >= max

\* the Map after cacheSet(original, translated) at time t, as call number stamp
cacheSet(m, original, translated, t, max, stamp) ==
    LET key == CacheKey(original)
        m1  == IF AtCapacity(m, max) THEN EvictFirst(m) ELSE m
    IN  MapSet(m1, [key |-> key, translated |-> translated,
                    expiresAt |-> ExpiresAt(t),
                    seq |-> stamp, setAt |-> t, original |-> original])

-----------------------------------------------------------------------------
(* Initial state: the process has started, nothing is cached *)

Slots == {1, 2}

NoResponse == [status |-> 0, body |-> "", headers |-> <<>>]

NoReply == [ok |-> FALSE, status |-> 0, data |-> ""]

NoTranslation == [ok |-> FALSE, hasData |-> FALSE, translations |-> <<>>]

\* a slot with no request in it; trace lists, for the request in the slot, the
\* cache calls and outbound calls its handler has made
IdleReq ==
    [pc |-> "idle", query |-> <<>>, hasKeywords |-> FALSE,
     spanishKeywords |-> <<>>, cached |-> null, portugueseKeywords |-> <<>>,
     attempted |-> FALSE, cacheHit |-> FALSE, forwardParams |-> <<>>,
     translateResponse |-> NoTranslation, apiResponse |-> NoReply,
     res |-> NoResponse, trace |-> <<>>]

NoCall == [n |-> 0, original |-> <<>>, value |-> null, at |-> 0]

Init ==
    /\ translationCache = <<>>
    /\ MAX_CACHE_ENTRIES \in
           {ParseIntOr(s, DEFAULT_MAX_CACHE_ENTRIES) : s \in CacheMaxSettings}
    /\ apiKey \in BOOLEAN
    /\ now = 0
    /\ reqs = [r \in Slots |-> IdleReq]
    /\ nReq = 0
    /\ nSet = 0
    /\ got = NoCall

\* time passes
Tick ==
    /\ now < MaxTime
    /\ now' = now + 1
    /\ UNCHANGED <<translationCache, MAX_CACHE_ENTRIES, apiKey, reqs, nReq, nSet, got>>

-----------------------------------------------------------------------------
(* The cache functions called on their own, with any text *)

DirectKeys == {<<"a">>, <<"A">>, <<" ", "a", " ">>, <<"b">>}
DirectValues == {<<"x">>, <<"y">>}

CallCacheSet(original, translated) ==
    /\ nSet < MaxSets
    /\ translationCache' =
           cacheSet(translationCache, original, translated, now,
                    MAX_CACHE_ENTRIES, nSet + 1)
    /\ nSet' = nSet + 1
    /\ UNCHANGED <<MAX_CACHE_ENTRIES, apiKey, now, reqs, nReq, got>>

CallCacheGet(original) ==
    /\ got.n < MaxGets
    /\ got' = [n |-> got.n + 1, original |-> original,
               value |-> cacheGetValue(translationCache, original, now),
               at |-> now]
    /\ translationCache' = cacheGetMap(translationCache, original, now)
    /\ UNCHANGED <<MAX_CACHE_ENTRIES, apiKey, now, reqs, nReq, nSet>>

NextCache ==
    \/ \E k \in DirectKeys, v \in DirectValues : CallCacheSet(k, v)
    \/ \E k \in DirectKeys : CallCacheGet(k)
    \/ Tick

\* no request is served here, so the credential plays no part
InitCache == Init /\ apiKey

SpecCache == InitCache /\ [][NextCache]_vars

-----------------------------------------------------------------------------
(* Properties of the cache *)

Entries(m) == {m[i] : i \in 1..Len(m)}

\* a step that is a direct cacheGet call
GetStep == got'.n = got.n + 1

\* a step in which cacheSet runs
SetStep == nSet' = nSet + 1

\* C1: once cacheSet has run, whatever the keys, values, reads and clock
\* advances, the number of entries in translationCache does not exceed the
\* configured capacity MAX_CACHE_ENTRIES.
C1_SizeWithinCapacity == nSet > 0 => Len(translationCache) <= MAX_CACHE_ENTRIES

\* C2: when the cache holds exactly MAX_CACHE_ENTRIES entries and cacheSet is
\* given a key that is not resident, exactly one entry is removed, the one
\* that became resident earliest, whatever has been read since; the others
\* stay as they are and the new entry joins them.
C2_EvictsOldest ==
    [][\A i \in 1..Len(translationCache') :
          ( /\ SetStep
            /\ translationCache'[i].seq = nSet'
            /\ translationCache'[i].key \notin MapKeys(translationCache)
            /\ Len(translationCache) = MAX_CACHE_ENTRIES )
          => \E e \in Entries(translationCache) :
                /\ \A f \in Entries(translationCache) : e.seq <= f.seq
                /\ Entries(translationCache') =
                      (Entries(translationCache) \ {e}) \cup {translationCache'[i]}
                /\ Len(translationCache') = Len(translationCache)]_vars

\* an entry was read live by cacheGet and has since been evicted from a full cache
C2_Witness ==
    /\ got.n > 0
    /\ got.value # null
    /\ CacheKey(got.original) \notin MapKeys(translationCache)
    /\ Len(translationCache) = MAX_CACHE_ENTRIES

\* C3 as stated: cacheGet returns the stored value of a resident entry written
\* at insert_time when insert_time <= t < insert_time + ttl, and absent when
\* t >= insert_time + ttl.
C3_AbsentFromBoundary ==
    [][GetStep =>
          \A e \in Entries(translationCache) :
             e.key = CacheKey(got'.original) =>
                /\ (e.setAt <= now /\ now < e.setAt + CACHE_TTL_MS
                       => got'.value = e.translated)
                /\ (now >= e.setAt + CACHE_TTL_MS => got'.value = null)]_vars

\* C3 amended: cacheGet returns the stored value when
\* insert_time <= t <= insert_time + ttl (the boundary instant included), and
\* absent when t > insert_time + ttl.
C3_LiveThroughBoundary ==
    [][GetStep =>
          \A e \in Entries(translationCache) :
             e.key = CacheKey(got'.original) =>
                /\ (e.setAt <= now /\ now <= e.setAt + CACHE_TTL_MS
                       => got'.value = e.translated)
                /\ (now > e.setAt + CACHE_TTL_MS => got'.value = null)]_vars

\* cacheGet at exactly insert_time + ttl returned the stored value
C3_Witness ==
    /\ got.n > 0
    /\ \E e \in Entries(translationCache) :
          /\ e.key = CacheKey(got.original)
          /\ got.at = e.setAt + CACHE_TTL_MS
          /\ got.value = e.translated

\* the normalization the claim describes: case-folding and trimming
Normalize(s) == ToLowerCase(Trim(s))

OverwriteStep ==
    /\ SetStep
    /\ MapKeys(translationCache') \subseteq MapKeys(translationCache)

\* C14: cacheSet on a key that is already resident overwrites that key's value
\* and sets its expiry to now + ttl, and evicts nothing: every entry resident
\* before is resident afterwards, and every other entry is as it was, also
\* when the cache is at capacity.
C14_OverwriteEvictsNothing ==
    [][OverwriteStep =>
          /\ MapKeys(translationCache') = MapKeys(translationCache)
          /\ \E e \in Entries(translationCache') :
                /\ e.setAt = now
                /\ e.expiresAt = now + CACHE_TTL_MS
                /\ \A f \in Entries(translationCache) :
                      f.key # e.key => f \in Entries(translationCache')]_vars

\* C15: whatever TRANSLATION_CACHE_MAX holds, zero, a negative number and
\* text that is not a number included, the capacity cacheSet works with is
\* positive, and the number of entries stays within it.
C15_EffectiveCapacityPositive ==
    nSet > 0 =>
       /\ MAX_CACHE_ENTRIES >= 1
       /\ Len(translationCache) <= MAX_CACHE_ENTRIES

\* C16: cacheGet purges lazily and changes nothing else.  A cacheGet that
\* finds an expired entry deletes that entry alone and returns absent; any
\* other cacheGet leaves the cache as it was, order included.  Nothing sweeps:
\* the passing of time removes nothing, and cacheSet removes no entry but the
\* first and only when the cache is at capacity, so an expired entry that is
\* not looked up stays resident until it is evicted.
C16_LazyPurgeOnly ==
    [][/\ GetStep =>
             LET k == CacheKey(got'.original)
             IN  IF \E e \in Entries(translationCache) :
                       e.key = k /\ now > e.expiresAt
                 THEN /\ translationCache' =
                            SelectSeq(translationCache, LAMBDA e : e.key # k)
                      /\ Len(translationCache') = Len(translationCache) - 1
                      /\ got'.value = null
                 ELSE translationCache' = translationCache
       /\ now' # now => translationCache' = translationCache
       /\ SetStep =>
             \A i \in 1..Len(translationCache) :
                (i > 1 \/ Len(translationCache) < MAX_CACHE_ENTRIES)
                => translationCache[i].key \in MapKeys(translationCache')]_vars

\* an expired entry is still resident, in a full cache, after a cacheGet for
\* another key ran past its expiry
C16_Witness ==
    /\ got.n > 0
    /\ \E e \in Entries(translationCache) :
          /\ e.key # CacheKey(got.original)
          /\ got.at > e.expiresAt
    /\ Len(translationCache) = 2
    /\ Len(translationCache) = MAX_CACHE_ENTRIES

-----------------------------------------------------------------------------
(* GET /search (lines 70-141).  The handler runs to its next await in one    *)
(* step: node runs one callback at a time.                                   *)

\* req.query: a function from the names of the parameters present to their values
Queries ==
    { <<>>,
      [keywords |-> <<" ">>, page |-> <<"2">>],
      [keywords |-> ArrayValue],
      [keywords |-> <<"a">>],
      [keywords |-> <<" ", "A", " ">>, page |-> <<"2">>],
      [keywords |-> <<"U+20AC">>] }

\* what axios.post to the provider can come back with: a rejection (timeout,
\* network error, status outside 2xx), or a body
ProviderResponses ==
    { [ok |-> FALSE, hasData |-> FALSE, translations |-> <<>>],
      [ok |-> TRUE, hasData |-> TRUE, translations |-> <<>>],
      [ok |-> TRUE, hasData |-> TRUE, translations |-> <<undefined>>],
      [ok |-> TRUE, hasData |-> TRUE, translations |-> << <<"x">> >>],
      [ok |-> TRUE, hasData |-> TRUE, translations |-> << <<>> >>] }

\* what axios.get to the backend can come back with: a 2xx reply, or a rejection
ForwarderReplies ==
    { [ok |-> TRUE, status |-> 201, data |-> "ads"],
      [ok |-> FALSE, status |-> 502, data |-> "bad gateway"] }

ErrorBody == "An internal server error occurred."

\* req.query.keywords
RawKeywords(q) == IF "keywords" \in DOMAIN q THEN q.keywords ELSE undefined

\* a check that forgets to trim: blank keywords count as keywords
HasKeywordsUntrimmed(raw) == IsString(raw) /\ Len(raw) > 0

\* typeof rawKeywords === 'string' && rawKeywords.trim().length > 0
HasKeywords(raw) == IsString(raw) /\ Len(Trim(raw)) > 0

\* a clone that loses the other parameters along with keywords
DeleteEverything(params) == <<>>

\* delete forwardParams.keywords
DeleteKeywords(params) == [n \in DOMAIN params \ {"keywords"} |-> params[n]]

\* a handler that forwards the keywords as they came
KeepKeywords(params, text) == params

\* forwardParams.keywords = text
SetKeywords(params, text) ==
    [n \in DOMAIN params \cup {"keywords"} |->
        IF n = "keywords" THEN text ELSE params[n]]

\* whether translateResponse.data.data.translations[0].translatedText throws
ExtractionThrows(resp) == ~resp.hasData \/ resp.translations = <<>>

\* translateResponse.data.data.translations[0].translatedText
TranslatedText(resp) == resp.translations[1]

\* the slot a new request occupies
FreeSlots == {r \in Slots : reqs[r].pc \in {"idle", "done"}}

\* lines 72-105: from the start of the handler to its first await
SearchBegin(r, q) ==
    LET raw     == RawKeywords(q)
        has     == HasKeywords(raw)
        spanish == Trim(raw)
        cached  == cacheGetValue(translationCache, spanish, now)
        hit     == Truthy(cached)
        text    == IF hit THEN cached ELSE spanish
        calls   == ~hit /\ apiKey
    IN  /\ nReq < MaxRequests
        /\ r \in FreeSlots
        /\ \A r2 \in FreeSlots : r <= r2
        /\ nReq' = nReq + 1
        /\ IF ~has
           THEN /\ reqs' = [reqs EXCEPT ![r] =
                       [IdleReq EXCEPT !.pc = "forwarding", !.query = q,
                                       !.forwardParams = DeleteKeywords(q),
                                       !.trace = <<"axios.get">>]]
                /\ UNCHANGED translationCache
           ELSE /\ translationCache' = cacheGetMap(translationCache, spanish, now)
                /\ reqs' = [reqs EXCEPT ![r] =
                       [IdleReq EXCEPT
                          !.pc = IF calls THEN "translating" ELSE "forwarding",
                          !.query = q, !.hasKeywords = TRUE,
                          !.spanishKeywords = spanish, !.cached = cached,
                          !.portugueseKeywords = text,
                          !.attempted = calls, !.cacheHit = hit,
                          !.forwardParams =
                              IF calls THEN q ELSE SetKeywords(q, text),
                          !.trace =
                              IF calls THEN <<"cacheGet", "axios.post">>
                              ELSE <<"cacheGet", "axios.get">>]]
        /\ UNCHANGED <<MAX_CACHE_ENTRIES, apiKey, now, nSet, got>>

\* lines 105-122: the provider call settles; on to the backend call
TranslateDone(r, resp) ==
    LET q      == reqs[r]
        failed == ~resp.ok \/ ExtractionThrows(resp)
        text   == IF failed THEN q.portugueseKeywords ELSE TranslatedText(resp)
    IN  /\ q.pc = "translating"
        /\ IF failed
           THEN UNCHANGED <<translationCache, nSet>>
           ELSE /\ translationCache' =
                      cacheSet(translationCache, q.spanishKeywords, text, now,
                               MAX_CACHE_ENTRIES, nSet + 1)
                /\ nSet' = nSet + 1
        /\ reqs' = [reqs EXCEPT ![r] =
               [q EXCEPT !.pc = "forwarding",
                         !.translateResponse = resp,
                         !.portugueseKeywords = text,
                         !.forwardParams = SetKeywords(q.forwardParams, text),
                         !.trace = q.trace \o
                             (IF failed THEN <<"axios.get">>
                              ELSE <<"cacheSet", "axios.get">>)]]
        /\ UNCHANGED <<MAX_CACHE_ENTRIES, apiKey, now, nReq, got>>

\* String(val), as res.set applies it
ToHeaderString(v) ==
    IF v = undefined THEN <<"u", "n", "d", "e", "f", "i", "n", "e", "d">> ELSE v

\* node refuses a header value holding a character outside
\* tab, U+0020-U+007E, U+0080-U+00FF: setHeader throws ERR_INVALID_CHAR
HeaderValueValid(v) == \A i \in 1..Len(v) : v[i] \notin NonLatin1

\* lines 131-134: the four res.set calls in order
DiagnosticHeaders(q) ==
    << <<"X-Translate-Attempted", IF q.attempted THEN <<"1">> ELSE <<"0">> >>,
       <<"X-Translate-Cached", IF q.cacheHit THEN <<"1">> ELSE <<"0">> >>,
       <<"X-Source-Keywords", ToHeaderString(q.spanishKeywords)>>,
       <<"X-Translated-Keywords", ToHeaderString(q.portugueseKeywords)>> >>

\* how many of the res.set calls succeed before one throws
HeadersSet(hs) ==
    IF \A i \in 1..Len(hs) : HeaderValueValid(hs[i][2]) THEN Len(hs)
    ELSE (CHOOSE i \in 1..Len(hs) :
             /\ ~HeaderValueValid(hs[i][2])
             /\ \A j \in 1..(i - 1) : HeaderValueValid(hs[j][2])) - 1

\* the headers on res after the first k res.set calls
HeadersAfter(hs, k) ==
    [n \in {hs[i][1] : i \in 1..k} |->
        hs[CHOOSE i \in 1..k : hs[i][1] = n][2]]

\* the response written on the path with keywords (lines 130-140)
DecoratedResponse(q, reply) ==
    LET hs == DiagnosticHeaders(q)
        k  == HeadersSet(hs)
    IN  IF k = Len(hs)
        THEN [status |-> reply.status, body |-> reply.data,
              headers |-> HeadersAfter(hs, k)]
        ELSE [status |-> 500, body |-> ErrorBody, headers |-> HeadersAfter(hs, k)]

\* a handler that hands the upstream error on to the caller
ResponseEchoingUpstream(q, reply) ==
    IF ~q.hasKeywords \/ ~reply.ok
    THEN [status |-> reply.status, body |-> reply.data, headers |-> <<>>]
    ELSE DecoratedResponse(q, reply)

\* the response the caller receives: lines 85, 130-136, and the catch of
\* lines 137-140 when axios.get rejected
Response(q, reply) ==
    IF ~reply.ok
    THEN [status |-> 500, body |-> ErrorBody, headers |-> <<>>]
    ELSE IF ~q.hasKeywords
    THEN [status |-> reply.status, body |-> reply.data, headers |-> <<>>]
    ELSE DecoratedResponse(q, reply)

\* a handler without the outer catch: a rejected axios.get ends the handler
\* with no response written
AnsweredUnlessRejected(q, reply) ==
    IF reply.ok
    THEN [q EXCEPT !.pc = "done", !.apiResponse = reply,
                   !.res = Response(q, reply)]
    ELSE [q EXCEPT !.pc = "unanswered", !.apiResponse = reply]

\* the request once its response is written
Answered(q, reply) ==
    [q EXCEPT !.pc = "done", !.apiResponse = reply, !.res = Response(q, reply)]

\* lines 84-85 and 122-140: the backend call settles; the response is written.
\* A slot keeps its answered request until the next response is written or a
\* new request takes the slot.
ForwardDone(r, reply) ==
    LET q == reqs[r]
    IN  /\ q.pc = "forwarding"
        /\ reqs' = [s \in Slots |->
                      IF s = r THEN Answered(q, reply)
                      ELSE IF reqs[s].pc = "done" THEN IdleReq
                      ELSE reqs[s]]
        /\ UNCHANGED <<translationCache, MAX_CACHE_ENTRIES, apiKey, now, nReq,
                       nSet, got>>

Next ==
    \/ \E r \in Slots, q \in Queries : SearchBegin(r, q)
    \/ \E r \in Slots, resp \in ProviderResponses : TranslateDone(r, resp)
    \/ \E r \in Slots, reply \in ForwarderReplies : ForwardDone(r, reply)
    \/ Tick

Spec == Init /\ [][Next]_vars

\* Every provider call and every backend call settles: axios.post has a
\* timeout of 8000 ms (line 104) and axios.get of 10000 ms (line 128), and a
\* settled promise resumes the handler.
SpecLive ==
    /\ Init
    /\ [][Next]_vars
    /\ \A r \in Slots :
          /\ WF_vars(\E resp \in ProviderResponses : TranslateDone(r, resp))
          /\ WF_vars(\E reply \in ForwarderReplies : ForwardDone(r, reply))

-----------------------------------------------------------------------------
(* Properties of the /search handler *)

Range(f) == {f[i] : i \in DOMAIN f}

\* the step in which the handler starts for the request in slot r
BeginStep(r) == nReq' = nReq + 1 /\ reqs'[r] # reqs[r]

\* the step in which the provider call of the request in slot r settles
TranslateStep(r) == reqs[r].pc = "translating" /\ reqs'[r].pc = "forwarding"

\* the request in slot r has got past the translation step
Resolved(r) == reqs[r].pc \in {"forwarding", "done"}

\* a query whose keywords are absent, not a string, or blank
NoUsableKeywords(q) ==
    \/ "keywords" \notin DOMAIN q
    \/ ~IsString(q.keywords)
    \/ Trim(q.keywords) = <<>>

\* a provider response that is a translation: a body whose first translation
\* carries a string
IsTranslation(resp) ==
    /\ resp.ok
    /\ resp.hasData
    /\ resp.translations # <<>>
    /\ IsString(resp.translations[1])

\* C5: for a request with usable keywords and no live cache entry, if the
\* credential is absent or the provider call fails (rejection or malformed
\* body), the resolved text is the trimmed original keywords, cacheHit is
\* false, and attempted is true exactly when the provider was invoked.
C5_FallbackToOriginal ==
    \A r \in Slots :
       LET q == reqs[r]
           invoked == "axios.post" \in Range(q.trace)
       IN  ( /\ Resolved(r)
             /\ ~NoUsableKeywords(q.query)
             /\ q.cached = null
             /\ (~apiKey \/ (invoked /\ ~IsTranslation(q.translateResponse))) )
           => /\ q.portugueseKeywords = Trim(q.query.keywords)
              /\ ~q.cacheHit
              /\ q.attempted = invoked

\* C6: once a translation (any string, the empty one included) is cached for
\* a text, a request for that text that starts strictly within the entry's
\* TTL window, with the entry still resident, resolves with cacheHit true,
\* attempted false, the cached value as forwarded keywords, and no provider
\* call.
C6_CachedTranslationIsHit ==
    [][\A r \in Slots :
          (BeginStep(r) /\ ~NoUsableKeywords(reqs'[r].query)) =>
             \A e \in Entries(translationCache) :
                ( /\ e.key = ToLowerCase(Trim(reqs'[r].query.keywords))
                  /\ IsString(e.translated)
                  /\ e.setAt <= now /\ now < e.setAt + CACHE_TTL_MS )
                => /\ reqs'[r].cacheHit
                   /\ ~reqs'[r].attempted
                   /\ "axios.post" \notin Range(reqs'[r].trace)
                   /\ reqs'[r].pc = "forwarding"
                   /\ reqs'[r].forwardParams.keywords = e.translated]_vars

\* C7: when the provider call of a request that missed the cache returns a
\* translation, that text is stored in the cache under the folded source text
\* with a fresh expiry, it is the resolved text and the forwarded keywords,
\* cacheHit is false and attempted is true.
C7_TranslationStoredAndForwarded ==
    [][\A r \in Slots :
          (TranslateStep(r) /\ IsTranslation(reqs'[r].translateResponse)) =>
             LET text == reqs'[r].translateResponse.translations[1]
             IN  /\ \E e \in Entries(translationCache') :
                       /\ e.key = ToLowerCase(Trim(reqs[r].query.keywords))
                       /\ e.translated = text
                       /\ e.expiresAt = now + CACHE_TTL_MS
                 /\ reqs'[r].portugueseKeywords = text
                 /\ ~reqs'[r].cacheHit
                 /\ reqs'[r].attempted
                 /\ reqs'[r].forwardParams.keywords = text]_vars

\* a request missed the cache, the provider translated its text, and the
\* translation is cached and forwarded
C7_Witness ==
    \E r \in Slots :
       /\ reqs[r].pc = "forwarding"
       /\ IsTranslation(reqs[r].translateResponse)
       /\ reqs[r].forwardParams.keywords = <<"x">>
       /\ reqs[r].spanishKeywords # <<"x">>
       /\ \E e \in Entries(translationCache) :
             e.key = ToLowerCase(reqs[r].spanishKeywords) /\ e.translated = <<"x">>

\* C8: a request whose keywords are absent, blank or not a string goes
\* straight to the forwarder with its parameters minus keywords: the cache is
\* neither read nor written and the provider is not called, then or later.
C8_NoKeywordsNoOrchestration ==
    [][\A r \in Slots :
          /\ (BeginStep(r) /\ NoUsableKeywords(reqs'[r].query)) =>
                /\ translationCache' = translationCache
                /\ nSet' = nSet
                /\ reqs'[r].pc = "forwarding"
                /\ reqs'[r].trace = <<"axios.get">>
                /\ DOMAIN reqs'[r].forwardParams =
                      DOMAIN reqs'[r].query \ {"keywords"}
                /\ \A n \in DOMAIN reqs'[r].forwardParams :
                      reqs'[r].forwardParams[n] = reqs'[r].query[n]
          /\ (reqs[r].pc = "forwarding" /\ NoUsableKeywords(reqs[r].query)) =>
                /\ translationCache' = translationCache \/ reqs'[r] = reqs[r]
                /\ reqs'[r].trace = reqs[r].trace
                /\ reqs'[r].forwardParams = reqs[r].forwardParams]_vars

\* a request with a keywords field that is blank or not a string was answered
\* from the backend, its other parameter forwarded, while the cache held an entry
C8_Witness ==
    \E r \in Slots :
       /\ reqs[r].pc = "done"
       /\ "keywords" \in DOMAIN reqs[r].query
       /\ NoUsableKeywords(reqs[r].query)
       /\ "page" \in DOMAIN reqs[r].forwardParams
       /\ reqs[r].apiResponse.ok
       /\ reqs[r].res.status = reqs[r].apiResponse.status
       /\ translationCache # <<>>

C10_ErrorOnlyWhenForwarderFails ==
    \A r \in Slots :
       reqs[r].pc = "done" =>
          /\ (reqs[r].res.status = 500 /\ reqs[r].res.body = ErrorBody)
                => ~reqs[r].apiResponse.ok
          /\ reqs[r].apiResponse.ok =>
                /\ reqs[r].res.status = reqs[r].apiResponse.status
                /\ reqs[r].res.body = reqs[r].apiResponse.data

\* C11: when the forwarder call fails, with or without keywords, the caller
\* receives status 500 with the fixed body 'An internal server error
\* occurred.' and no header; nothing of the failed call (its status, its body)
\* and no diagnostic header is in the response.
C11_ForwarderFailureIsGeneric500 ==
    \A r \in Slots :
       (reqs[r].pc = "done" /\ ~reqs[r].apiResponse.ok) =>
          /\ reqs[r].res.status = 500
          /\ reqs[r].res.body = "An internal server error occurred."
          /\ reqs[r].res.headers = <<>>
          /\ reqs[r].res.status # reqs[r].apiResponse.status
          /\ reqs[r].res.body # reqs[r].apiResponse.data

\* a request whose keywords were translated got the generic 500 because the
\* forwarder call failed
C11_Witness ==
    \E r \in Slots :
       /\ reqs[r].pc = "done"
       /\ ~reqs[r].apiResponse.ok
       /\ reqs[r].hasKeywords
       /\ reqs[r].attempted
       /\ "cacheSet" \in Range(reqs[r].trace)
       /\ reqs[r].res.status = 500

\* C12: every cacheSet the handler makes, also when another request for the
\* same text missed the cache too and has written or will write, leaves
\* exactly one entry for the lower-cased text, holding the value of this
\* write and the expiry now + ttl of this write: the last write wins.
C12_LastWriteWins ==
    [][\A r \in Slots :
          (TranslateStep(r) /\ SetStep) =>
             LET k == ToLowerCase(reqs[r].spanishKeywords)
                 at == {i \in 1..Len(translationCache') :
                           translationCache'[i].key = k}
             IN  /\ Cardinality(at) = 1
                 /\ \A i \in at :
                       /\ translationCache'[i].translated =
                             reqs'[r].portugueseKeywords
                       /\ translationCache'[i].expiresAt = now + CACHE_TTL_MS]_vars

\* two requests for the same text were in flight together, both missed, both
\* called the provider and both wrote, with different translations; the one
\* entry holds what the later write stored
C12_Witness ==
    \E r1, r2 \in Slots :
       /\ r1 # r2
       /\ ToLowerCase(reqs[r1].spanishKeywords) = ToLowerCase(reqs[r2].spanishKeywords)
       /\ "cacheSet" \in Range(reqs[r1].trace)
       /\ "cacheSet" \in Range(reqs[r2].trace)
       /\ reqs[r1].pc = "forwarding" /\ reqs[r2].pc = "forwarding"
       /\ reqs[r1].portugueseKeywords # reqs[r2].portugueseKeywords
       /\ \E i \in 1..Len(translationCache) :
             /\ translationCache[i].key = ToLowerCase(reqs[r2].spanishKeywords)
             /\ translationCache[i].translated = reqs[r2].portugueseKeywords
             /\ translationCache[i].setAt = now
             /\ translationCache[i].seq < nSet

\* the response passes the forwarder's reply through
Successful(q) ==
    /\ q.pc = "done"
    /\ q.apiResponse.ok
    /\ q.res.status = q.apiResponse.status
    /\ q.res.body = q.apiResponse.data

\* C13: every successful response to a request with usable keywords carries
\* the four diagnostic headers: X-Translate-Attempted is '1' exactly when the
\* provider was invoked for the request, X-Translate-Cached is '1' exactly when
\* the text came from a live cache entry, X-Source-Keywords is the trimmed
\* original text and X-Translated-Keywords is the text placed in the
\* forwarded keywords parameter.
C13_HeadersReflectOutcome ==
    \A r \in Slots :
       (Successful(reqs[r]) /\ reqs[r].hasKeywords) =>
          LET q == reqs[r]
              h == q.res.headers
          IN  /\ DOMAIN h = {"X-Translate-Attempted", "X-Translate-Cached",
                             "X-Source-Keywords", "X-Translated-Keywords"}
              /\ h["X-Translate-Attempted"] =
                    IF "axios.post" \in Range(q.trace) THEN <<"1">> ELSE <<"0">>
              /\ h["X-Translate-Cached"] =
                    IF q.cached # null /\ "axios.post" \notin Range(q.trace)
                    THEN <<"1">> ELSE <<"0">>
              /\ h["X-Source-Keywords"] = Trim(q.query.keywords)
              /\ h["X-Translated-Keywords"] = q.forwardParams.keywords

\* how many times the request called the provider
Invocations(q) == Cardinality({i \in 1..Len(q.trace) : q.trace[i] = "axios.post"})

\* C17: for every request with usable keywords, cacheHit and attempted are
\* never both true, the provider is called at most once, and it is called only
\* when cacheGet found no live entry and the credential is present; with the
\* credential absent, a live entry found by cacheGet is served as a cache hit.
C17_HitOrOneAttempt ==
    \A r \in Slots :
       reqs[r].hasKeywords =>
          LET q == reqs[r]
          IN  /\ ~(q.cacheHit /\ q.attempted)
              /\ Invocations(q) <= 1
              /\ q.attempted <=> Invocations(q) = 1
              /\ Invocations(q) = 1 => (q.cached = null /\ apiKey)
              /\ (~apiKey /\ q.cached # null) =>
                    /\ q.cacheHit
                    /\ q.portugueseKeywords = q.cached

\* C18: a provider call that fails (rejection or malformed body) and a
\* missing credential leave the cache as it was: nothing is written,
\* refreshed or evicted on a fallback path.
C18_FallbackLeavesCache ==
    [][\A r \in Slots :
          /\ (TranslateStep(r) /\ ~IsTranslation(reqs'[r].translateResponse)) =>
                /\ translationCache' = translationCache
                /\ nSet' = nSet
          /\ (BeginStep(r) /\ ~NoUsableKeywords(reqs'[r].query) /\ ~apiKey) =>
                /\ translationCache' = translationCache
                /\ nSet' = nSet
                /\ reqs'[r].pc = "forwarding"]_vars

\* the place of a call in the trace of a request
FirstAt(trace, call) ==
    CHOOSE i \in 1..Len(trace) :
       trace[i] = call /\ \A j \in 1..(i - 1) : trace[j] # call

\* C19: cacheSet runs before the forwarder call and what follows does not
\* undo it: writing the response, the generic 500 included, leaves the cache
\* as it is, and when a request whose translation was cached got the generic
\* 500, the next request for the same text within the TTL, with the entry
\* still resident, is a cache hit with no provider call.
C19_WriteSurvivesForwardFailure ==
    [][\A r \in Slots :
          /\ "cacheSet" \in Range(reqs[r].trace) =>
                FirstAt(reqs[r].trace, "cacheSet") < FirstAt(reqs[r].trace, "axios.get")
          /\ (reqs[r].pc = "forwarding" /\ reqs'[r].pc = "done") =>
                translationCache' = translationCache
          /\ \A r2 \in Slots :
                ( /\ BeginStep(r)
                  /\ ~NoUsableKeywords(reqs'[r].query)
                  /\ reqs[r2].pc = "done"
                  /\ ~reqs[r2].apiResponse.ok
                  /\ reqs[r2].res.status = 500
                  /\ IsTranslation(reqs[r2].translateResponse)
                  /\ ToLowerCase(reqs[r2].spanishKeywords) =
                        ToLowerCase(Trim(reqs'[r].query.keywords)) )
                => \A e \in Entries(translationCache) :
                      ( /\ e.key = ToLowerCase(reqs[r2].spanishKeywords)
                        /\ e.translated = reqs[r2].portugueseKeywords
                        /\ e.setAt <= now /\ now < e.setAt + CACHE_TTL_MS )
                      => /\ reqs'[r].cacheHit
                         /\ "axios.post" \notin Range(reqs'[r].trace)
                         /\ reqs'[r].forwardParams.keywords = e.translated]_vars

\* the request in slot r is waiting for the provider or for the backend
InFlight(r) == reqs[r].pc \in {"translating", "forwarding"}

\* C20: when every provider call and every backend call settles, every
\* request is answered, and answered once: a response is written only as the
\* backend call of a request without a response settles, and it is the
\* backend's reply passed through or the generic 500.
C20_AnsweredExactlyOnce ==
    /\ \A r \in Slots : InFlight(r) ~> (reqs[r].pc = "done")
    /\ [][\A r \in Slots :
             reqs'[r].res # reqs[r].res =>
                \/ reqs'[r].res = NoResponse
                \/ /\ reqs[r].pc = "forwarding"
                   /\ reqs'[r].pc = "done"
                   /\ reqs[r].res = NoResponse
                   /\ \/ /\ reqs'[r].res.status = reqs'[r].apiResponse.status
                         /\ reqs'[r].res.body = reqs'[r].apiResponse.data
                      \/ /\ reqs'[r].res.status = 500
                         /\ reqs'[r].res.body = "An internal server error occurred."]_vars

\* a request was answered with the backend's reply while another, started
\* before the answer, still waits for the provider
C20_Witness ==
    \E r1, r2 \in Slots :
       /\ reqs[r1].pc = "done"
       /\ reqs[r1].res.status = reqs[r1].apiResponse.status
       /\ reqs[r1].apiResponse.ok
       /\ reqs[r2].pc = "translating"

====
